---- MODULE Spec2Model ----
(***************************************************************************)
(* Concurrent-KVS: the shared-memory request ring (TaskQueue), the         *)
(* response table (ResponseTable), the striped store (ConcurrentHashMap),  *)
(* the worker pool (KVSServer) and the client handle (KVSClient).          *)
(*                                                                         *)
(* Every access to shared memory (an atomic load, store or CAS, a plain    *)
(* copy of a Task or of a value, a store operation under its stripe lock)  *)
(* is one step; the thread-local computation that follows it, up to the    *)
(* next access, belongs to the same step.                                  *)
(***************************************************************************)
EXTENDS Integers, Sequences, FiniteSets, TLC

(* ------------------------------------------------------------------ *)
(* Program constants                                                    *)
(* ------------------------------------------------------------------ *)
CMD_GET == 1
CMD_SET == 2
CMD_POST == 3
CMD_DELETE == 4

RESPONSE_PENDING == 0
RESPONSE_SUCCESS == 1
RESPONSE_NOT_FOUND == 2
RESPONSE_FAILED == 3

\* The mask of the pause backoff, (backoff << 1) & 0xFF, as a modulus.
BackoffModulus == 256
\* buckets per stripe: table(stripe_count * 10)
BucketsPerStripe == 10
\* next_task_id(1)
FirstTaskId == 1

(* ------------------------------------------------------------------ *)
(* Bounds of the model                                                  *)
(* ------------------------------------------------------------------ *)
\* TaskQueue::QUEUE_SIZE (1024 in the source), scaled down.
QUEUE_SIZE == 2
\* TaskQueue::MAX_RETRIES (1000 in the source), scaled down: the retry
\* budget of try_push and try_pop when the caller passes none.
MAX_RETRIES == 1
\* ResponseTable::TABLE_SIZE (1024 in the source), scaled down.
TABLE_SIZE == 2
\* The retry budget worker_thread passes to try_pop (100 in the source),
\* scaled down.
WorkerRetries == 1
\* stripe_count, std::thread::hardware_concurrency() by default.
StripeCount == 2
\* Calls of try_push the ring harness makes in one behaviour.
MaxPush == 3
\* Requests the server test pushes in one behaviour.
MaxServerPush == 2
\* Operations one client thread performs in one behaviour.
OpsPerThread == 1

\* Calls of the store made directly by the threads of the store harness.
MaxStoreOps == 3

\* Calls of size() made by the observing thread.
MaxSizeCalls == 1

\* Operations the sequential client performs in one behaviour.
SeqOps == 2

\* Operations the client of the one-worker server performs.
ClientOps == 3

\* Operations each thread performs when only tickets are watched.
TicketOps == 2

\* Calls of stop() one thread makes in one behaviour.
MaxStops == 2

\* Producer threads (client threads) and consumer threads (workers).
Threads == {"t1", "t2"}
Workers == {"w1", "w2"}
\* The threads that call start() and stop() of the server.
Callers == {"c1", "c2"}
\* client_pid of the client processes; Keys and Values of the requests.
Pids == {1, 2}
Keys == {1}
Values == {1}
Commands == {CMD_GET, CMD_SET, CMD_POST, CMD_DELETE}

VARIABLES
    tasks,      \* TaskQueue::tasks, index -> Task
    head,       \* TaskQueue::head
    tail,       \* TaskQueue::tail
    version,    \* TaskQueue::version
    prod,       \* per producer thread: the frame of its try_push call
    cons,       \* per consumer thread: the frame of its try_pop call
    obs,        \* the frame of the thread that calls size()
    pushed,     \* history: the tasks whose try_push returned true, in CAS order
    popped,     \* history: the tasks successful try_pop calls returned, in CAS order
    calls,      \* history: calls of try_push (push) the harnesses made
    responses,  \* ResponseTable::responses, index -> Response
    table,      \* ConcurrentHashMap::table, bucket index -> chain of pairs
    running,    \* KVSServer::running
    srv,        \* per thread that calls start() and stop(): where it is in stop()
    wk,         \* per worker: where it is in worker_thread and process_task
    pidOf,      \* per client thread: the client_pid of its KVSClient
    next_task_id, \* per KVSClient: next_task_id
    cl,         \* per client thread: where it is in a synchronous operation
    executed,   \* history: the requests process_task ran against the store
    stored,     \* history: the <<key, value>> pairs the store was given
    locks,      \* ConcurrentHashMap::locks, stripe index -> the holder
    sf,         \* per thread that calls the store directly: the frame of its call
    sz,         \* the frame of the thread that calls ConcurrentHashMap::size()
    hist,       \* history: the store calls that returned, in the order of their effect
    added,      \* history: requests process_task ran that added a key to the store
    removed     \* history: requests process_task ran that removed a key

vars == <<tasks, head, tail, version, prod, cons, obs, pushed, popped, calls,
          responses, table, running, srv, wk, pidOf, next_task_id, cl,
          executed, stored, locks, sf, sz, hist, added, removed>>

\* The locks of the store, the threads that call it directly and the history.
storeVars == <<locks, sf, sz, hist, added, removed>>

ringVars == <<tasks, head, tail, version>>

\* What the steps of the ring leave alone whoever called.
restVars == <<obs, calls, responses, table, running, srv, pidOf, next_task_id,
              executed, stored, storeVars>>

(* ------------------------------------------------------------------ *)
(* Task                                                                 *)
(* ------------------------------------------------------------------ *)
\* The content of a ring slot nobody has written yet.
NoTask == [cmd |-> 0, key |-> 0, value |-> 0, has_value |-> FALSE,
           client_pid |-> 0, task_id |-> 0]

Task(cmd, key, value, has_value, client_pid, task_id) ==
    [cmd |-> cmd, key |-> key, value |-> value, has_value |-> has_value,
     client_pid |-> client_pid, task_id |-> task_id]

(* ------------------------------------------------------------------ *)
(* ResponseTable                                                        *)
(* ------------------------------------------------------------------ *)
\* &responses[task_id % TABLE_SIZE], as the index of the slot.
get_slot(task_id) == task_id % TABLE_SIZE

\* The table after value-initialization: status PENDING, value zero.
EmptyResponses ==
    [i \in 0 .. TABLE_SIZE - 1 |-> [status |-> RESPONSE_PENDING, value |-> 0]]

(* ------------------------------------------------------------------ *)
(* TaskQueue                                                            *)
(* ------------------------------------------------------------------ *)
\* A thread that is in neither try_push nor try_pop.
IdleFrame ==
    [pc |-> "idle", task |-> NoTask, current_tail |-> 0, current_head |-> 0,
     retries |-> 0, backoff |-> 1, max_retries |-> 0, blocking |-> FALSE]

\* next_tail = (current_tail + 1) % QUEUE_SIZE
NextTail(current_tail) == (current_tail + 1) % QUEUE_SIZE

\* next_head = (current_head + 1) % QUEUE_SIZE
NextHead(current_head) == (current_head + 1) % QUEUE_SIZE

\* if (next_tail == current_head % QUEUE_SIZE) return false;
IsFull(current_tail, current_head) ==
    NextTail(current_tail) = current_head % QUEUE_SIZE

\* if (current_head % QUEUE_SIZE == current_tail % QUEUE_SIZE) return false;
IsEmpty(current_head, current_tail) ==
    current_head % QUEUE_SIZE = current_tail % QUEUE_SIZE

\* backoff = (backoff << 1) & 0xFF
NextBackoff(backoff) == (backoff * 2) % BackoffModulus

\* The entry of try_push(task, max_retries): retries = 0, backoff = 1.
\* blocking: the call is made by push(task), which calls again on false.
PushFrame(task, max_retries, blocking) ==
    [IdleFrame EXCEPT !.pc = "load_tail", !.task = task,
                      !.max_retries = max_retries, !.blocking = blocking]

\* The entry of try_pop(task, max_retries). What the caller's variable held
\* is never read before try_pop overwrites it.
PopFrame(max_retries) ==
    [IdleFrame EXCEPT !.pc = "load_head", !.max_retries = max_retries]

\* A failure path that goes round again without counting the round.
RetryFrame_uncounted(frame, pc) == [frame EXCEPT !.pc = pc]

\* The failure path of one round: pause, backoff, ++retries.
RetryFrame(frame, pc) ==
    [frame EXCEPT !.backoff = NextBackoff(frame.backoff),
                  !.retries = frame.retries + 1, !.pc = pc]

\* try_push returns ret to thread t. push() yields and calls again on
\* false. submit_task returns ret to X_async and that to the synchronous
\* operation: on false it fails (nullopt, false), on true
\* wait_for_response begins.
PushReturns(t, ret) ==
    /\ prod' = [prod EXCEPT ![t] =
                   IF prod[t].blocking /\ ~ret
                   THEN PushFrame(prod[t].task, prod[t].max_retries, TRUE)
                   ELSE IdleFrame]
    /\ cl' = IF cl[t].pc = "push"
             THEN [cl EXCEPT ![t].pc = IF ret THEN "wait" ELSE "idle",
                             ![t].ok = FALSE, ![t].value = 0]
             ELSE cl

\* try_pop returns ret to thread w, with the request in task. In
\* worker_thread: process_task(task) on true, the sleep on false.
PopReturns(w, ret, task) ==
    /\ cons' = [cons EXCEPT ![w] = IdleFrame]
    /\ wk' = IF wk[w].pc = "pop"
             THEN [wk EXCEPT ![w].pc = IF ret THEN "exec" ELSE "loop",
                             ![w].task = IF ret THEN task ELSE NoTask]
             ELSE wk

\* try_push: while (retries < max_retries) { current_tail = tail.load();
PushLoadTail(t) ==
    /\ prod[t].pc = "load_tail"
    /\ IF prod[t].retries < prod[t].max_retries
       THEN /\ prod' = [prod EXCEPT ![t].current_tail = tail, ![t].pc = "load_head"]
            /\ UNCHANGED cl
       ELSE PushReturns(t, FALSE)
    /\ UNCHANGED <<ringVars, cons, wk, pushed, popped, restVars>>

\* try_push: current_head = head.load(); if (full) return false;
PushLoadHead(t) ==
    /\ prod[t].pc = "load_head"
    /\ IF IsFull(prod[t].current_tail, head)
       THEN PushReturns(t, FALSE)
       ELSE /\ prod' = [prod EXCEPT ![t].current_head = head, ![t].pc = "write"]
            /\ UNCHANGED cl
    /\ UNCHANGED <<ringVars, cons, wk, pushed, popped, restVars>>

\* try_push: tasks[current_tail % QUEUE_SIZE] = task;
PushWrite(t) ==
    /\ prod[t].pc = "write"
    /\ tasks' = [tasks EXCEPT ![prod[t].current_tail % QUEUE_SIZE] = prod[t].task]
    /\ prod' = [prod EXCEPT ![t].pc = "cas"]
    /\ UNCHANGED <<head, tail, version, cons, cl, wk, pushed, popped, restVars>>

\* try_push: tail.compare_exchange_weak(current_tail, next_tail) succeeds;
\* version.fetch_add(1); return true;
PushCasSuccess(t) ==
    /\ prod[t].pc = "cas"
    /\ tail = prod[t].current_tail
    /\ tail' = NextTail(prod[t].current_tail)
    /\ version' = version + 1
    /\ pushed' = Append(pushed, prod[t].task)
    /\ PushReturns(t, TRUE)
    /\ UNCHANGED <<tasks, head, cons, wk, popped, restVars>>

\* try_push: the compare_exchange_weak fails, because tail has moved or
\* spuriously.
PushCasFail(t) ==
    /\ prod[t].pc = "cas"
    /\ prod' = [prod EXCEPT ![t] = RetryFrame(prod[t], "load_tail")]
    /\ UNCHANGED <<ringVars, cons, cl, wk, pushed, popped, restVars>>

\* try_pop: while (retries < max_retries) { current_head = head.load();
PopLoadHead(w) ==
    /\ cons[w].pc = "load_head"
    /\ IF cons[w].retries < cons[w].max_retries
       THEN /\ cons' = [cons EXCEPT ![w].current_head = head, ![w].pc = "load_tail"]
            /\ UNCHANGED wk
       ELSE PopReturns(w, FALSE, NoTask)
    /\ UNCHANGED <<ringVars, prod, cl, pushed, popped, restVars>>

\* try_pop: current_tail = tail.load(); if (empty) return false;
PopLoadTail(w) ==
    /\ cons[w].pc = "load_tail"
    /\ IF IsEmpty(cons[w].current_head, tail)
       THEN PopReturns(w, FALSE, NoTask)
       ELSE /\ cons' = [cons EXCEPT ![w].current_tail = tail, ![w].pc = "read"]
            /\ UNCHANGED wk
    /\ UNCHANGED <<ringVars, prod, cl, pushed, popped, restVars>>

\* try_pop: task = tasks[current_head % QUEUE_SIZE];
PopRead(w) ==
    /\ cons[w].pc = "read"
    /\ cons' = [cons EXCEPT ![w].task = tasks[cons[w].current_head % QUEUE_SIZE],
                            ![w].pc = "cas"]
    /\ UNCHANGED <<ringVars, prod, cl, wk, pushed, popped, restVars>>

\* try_pop: head.compare_exchange_weak(current_head, next_head) succeeds;
\* version.fetch_add(1); return true;
PopCasSuccess(w) ==
    /\ cons[w].pc = "cas"
    /\ head = cons[w].current_head
    /\ head' = NextHead(cons[w].current_head)
    /\ version' = version + 1
    /\ popped' = Append(popped, cons[w].task)
    /\ PopReturns(w, TRUE, cons[w].task)
    /\ UNCHANGED <<tasks, tail, prod, cl, pushed, restVars>>

\* try_pop: the compare_exchange_weak fails, because head has moved or
\* spuriously.
PopCasFail(w) ==
    /\ cons[w].pc = "cas"
    /\ cons' = [cons EXCEPT ![w] = RetryFrame(cons[w], "load_head")]
    /\ UNCHANGED <<ringVars, prod, cl, wk, pushed, popped, restVars>>

\* The steps inside try_push, by thread t.
PushStep(t) ==
    \/ PushLoadTail(t)
    \/ PushLoadHead(t)
    \/ PushWrite(t)
    \/ PushCasSuccess(t)
    \/ PushCasFail(t)

\* The steps inside try_pop, by thread w.
PopStep(w) ==
    \/ PopLoadHead(w)
    \/ PopLoadTail(w)
    \/ PopRead(w)
    \/ PopCasSuccess(w)
    \/ PopCasFail(w)

\* A thread that is not in size().
IdleObserver ==
    [pc |-> "idle", current_tail |-> 0, current_head |-> 0, size |-> 0]

\* size(): current_tail = tail.load(relaxed);
SizeLoadTail ==
    /\ obs.pc = "idle"
    /\ obs' = [pc |-> "load_head", current_tail |-> tail, current_head |-> 0,
               size |-> 0]
    /\ UNCHANGED <<ringVars, prod, cons, cl, wk, pushed, popped, calls,
                   responses, table, running, srv, pidOf, next_task_id, executed, stored, storeVars>>

\* size() with a strict comparison of the cursors: equal cursors would
\* fall into the wrapped branch.
size_strict(current_tail, current_head) ==
    IF current_tail > current_head
    THEN (current_tail - current_head) % QUEUE_SIZE
    ELSE QUEUE_SIZE - ((current_head - current_tail) % QUEUE_SIZE)

\* size() of the two loads.
size(current_tail, current_head) ==
    IF current_tail >= current_head
    THEN (current_tail - current_head) % QUEUE_SIZE
    ELSE QUEUE_SIZE - ((current_head - current_tail) % QUEUE_SIZE)

\* size(): current_head = head.load(relaxed); and the value is returned.
SizeLoadHead ==
    /\ obs.pc = "load_head"
    /\ obs' = [pc |-> "ret", current_tail |-> obs.current_tail,
               current_head |-> head, size |-> size(obs.current_tail, head)]
    /\ UNCHANGED <<ringVars, prod, cons, cl, wk, pushed, popped, calls,
                   responses, table, running, srv, pidOf, next_task_id, executed, stored, storeVars>>

\* The caller of size() has taken the value.
SizeReturn ==
    /\ obs.pc = "ret"
    /\ obs' = IdleObserver
    /\ UNCHANGED <<ringVars, prod, cons, cl, wk, pushed, popped, calls,
                   responses, table, running, srv, pidOf, next_task_id, executed, stored, storeVars>>

(* ------------------------------------------------------------------ *)
(* ConcurrentHashMap. An operation holds the lock of its key's stripe   *)
(* from its first line to its return, and every key of a bucket has the *)
(* same stripe, so an operation is one step.                            *)
(* ------------------------------------------------------------------ *)
NumBuckets == StripeCount * BucketsPerStripe

\* std::hash of an integer key is the key itself.
hasher(key) == key

\* A stripe taken from the part of the hash the bucket index does not use.
get_stripe_index_high(key) == (hasher(key) \div NumBuckets) % StripeCount

\* return hasher(key) % locks.size();
get_stripe_index(key) == hasher(key) % StripeCount

\* bucket_index = hasher(key) % table.size()
BucketIndex(key) == hasher(key) % NumBuckets

EmptyTable == [b \in 0 .. NumBuckets - 1 |-> <<>>]

\* for (pair : bucket) if (pair.first == key): the position of the first
\* match in the chain, 0 when there is none.
\* A scan that never finds the key.
FirstMatch_none(bucket, key) == 0 * Len(bucket) * key

\* A scan that stops at the first entry of the chain, whatever its key.
FirstMatch_any_key(bucket, key) ==
    IF bucket = <<>> THEN 0 * key ELSE 1

FirstMatch(bucket, key) ==
    LET M == {i \in 1 .. Len(bucket) : bucket[i].first = key}
    IN  IF M = {} THEN 0 ELSE CHOOSE i \in M : \A j \in M : i <= j

\* bool insert(key, value)
insert(tb, key, value) ==
    LET b == BucketIndex(key)
        i == FirstMatch(tb[b], key)
    IN  IF i # 0
        THEN [ret |-> FALSE, table |-> tb]
        ELSE [ret |-> TRUE,
              table |-> [tb EXCEPT ![b] = Append(@, [first |-> key, second |-> value])]]

\* An insert_or_assign that leaves the value of a present key as it is.
insert_or_assign_keeps(tb, key, value) ==
    LET b == BucketIndex(key)
        i == FirstMatch(tb[b], key)
    IN  IF i # 0
        THEN tb
        ELSE [tb EXCEPT ![b] = Append(@, [first |-> key, second |-> value])]

\* void insert_or_assign(key, value)
insert_or_assign(tb, key, value) ==
    LET b == BucketIndex(key)
        i == FirstMatch(tb[b], key)
    IN  IF i # 0
        THEN [tb EXCEPT ![b][i].second = value]
        ELSE [tb EXCEPT ![b] = Append(@, [first |-> key, second |-> value])]

\* bool find(key, value): value is written only when the key is found.
find(tb, key, value) ==
    LET b == BucketIndex(key)
        i == FirstMatch(tb[b], key)
    IN  IF i # 0
        THEN [ret |-> TRUE, value |-> tb[b][i].second]
        ELSE [ret |-> FALSE, value |-> value]

\* An erase that reports the removal and leaves the entry.
erase_keeps(tb, key) ==
    [ret |-> FirstMatch(tb[BucketIndex(key)], key) # 0, table |-> tb]

\* bool erase(key)
erase(tb, key) ==
    LET b == BucketIndex(key)
        i == FirstMatch(tb[b], key)
    IN  IF i # 0
        THEN [ret |-> TRUE,
              table |-> [tb EXCEPT ![b] = SubSeq(@, 1, i - 1) \o SubSeq(@, i + 1, Len(@))]]
        ELSE [ret |-> FALSE, table |-> tb]

\* The holder of a mutex nobody holds.
Free == "free"

\* A mutex that excludes nobody.
CanLock_unguarded(stripe) == stripe = stripe

\* A std::mutex can be acquired when nobody holds it.
CanLock(stripe) == locks[stripe] = Free

\* A thread that is in no call of the store. pos is the position the scan
\* of the bucket reached, 0 for its end.
IdleStore ==
    [pc |-> "idle", op |-> "none", key |-> 0, value |-> 0, pos |-> 0]

\* A thread calls insert, insert_or_assign, find or erase.
StoreCall(t, op, key, value) ==
    /\ sf[t].pc = "idle"
    /\ Len(hist) + Cardinality({u \in Threads : sf[u].pc # "idle"}) < MaxStoreOps
    /\ sf' = [sf EXCEPT ![t] = [pc |-> "lock", op |-> op, key |-> key,
                                value |-> IF op \in {"insert", "insert_or_assign"}
                                          THEN value ELSE 0,
                                pos |-> 0]]
    /\ UNCHANGED <<ringVars, prod, cons, obs, pushed, popped, calls, responses,
                   table, running, srv, wk, pidOf, next_task_id, cl, executed,
                   stored, locks, sz, hist, added, removed>>

\* std::lock_guard<std::mutex> guard(locks[stripe_index]);
StoreLock(t) ==
    /\ sf[t].pc = "lock"
    /\ CanLock(get_stripe_index(sf[t].key))
    /\ locks' = [locks EXCEPT ![get_stripe_index(sf[t].key)] = t]
    /\ sf' = [sf EXCEPT ![t].pc = "scan"]
    /\ UNCHANGED <<ringVars, prod, cons, obs, pushed, popped, calls, responses,
                   table, running, srv, wk, pidOf, next_task_id, cl, executed,
                   stored, sz, hist, added, removed>>

\* for (pair : bucket) if (pair.first == key)
StoreScan(t) ==
    /\ sf[t].pc = "scan"
    /\ sf' = [sf EXCEPT ![t].pos = FirstMatch(table[BucketIndex(sf[t].key)], sf[t].key),
                        ![t].pc = "apply"]
    /\ UNCHANGED <<ringVars, prod, cons, obs, pushed, popped, calls, responses,
                   table, running, srv, wk, pidOf, next_task_id, cl, executed,
                   stored, locks, sz, hist, added, removed>>

\* A store whose insert writes over the value of a present key.
ApplyAt_insert_assigns(tb, op, key, value, pos) ==
    LET b == BucketIndex(key) IN
    CASE op \in {"insert", "insert_or_assign"} ->
           IF pos # 0
           THEN [table |-> [tb EXCEPT ![b][pos].second = value],
                 ret |-> op = "insert_or_assign", out |-> 0]
           ELSE [table |-> [tb EXCEPT ![b] = Append(@, [first |-> key, second |-> value])],
                 ret |-> TRUE, out |-> 0]
      [] op = "find" ->
           IF pos # 0
           THEN [table |-> tb, ret |-> TRUE, out |-> tb[b][pos].second]
           ELSE [table |-> tb, ret |-> FALSE, out |-> 0]
      [] op = "erase" ->
           IF pos # 0
           THEN [table |-> [tb EXCEPT ![b] = SubSeq(@, 1, pos - 1)
                                              \o SubSeq(@, pos + 1, Len(@))],
                 ret |-> TRUE, out |-> 0]
           ELSE [table |-> tb, ret |-> FALSE, out |-> 0]

\* What the call does at the position its scan reached: the table after
\* it, the bool it returns (true for insert_or_assign, which returns
\* nothing) and the value find writes into its argument (0: none).
ApplyAt(tb, op, key, value, pos) ==
    LET b == BucketIndex(key) IN
    CASE op = "insert" ->
           IF pos # 0
           THEN [table |-> tb, ret |-> FALSE, out |-> 0]
           ELSE [table |-> [tb EXCEPT ![b] = Append(@, [first |-> key, second |-> value])],
                 ret |-> TRUE, out |-> 0]
      [] op = "insert_or_assign" ->
           IF pos # 0
           THEN [table |-> [tb EXCEPT ![b][pos].second = value], ret |-> TRUE, out |-> 0]
           ELSE [table |-> [tb EXCEPT ![b] = Append(@, [first |-> key, second |-> value])],
                 ret |-> TRUE, out |-> 0]
      [] op = "find" ->
           IF pos # 0
           THEN [table |-> tb, ret |-> TRUE, out |-> tb[b][pos].second]
           ELSE [table |-> tb, ret |-> FALSE, out |-> 0]
      [] op = "erase" ->
           IF pos # 0
           THEN [table |-> [tb EXCEPT ![b] = SubSeq(@, 1, pos - 1)
                                              \o SubSeq(@, pos + 1, Len(@))],
                 ret |-> TRUE, out |-> 0]
           ELSE [table |-> tb, ret |-> FALSE, out |-> 0]

\* The body after the scan, the return and the release of the guard.
StoreApply(t) ==
    /\ sf[t].pc = "apply"
    /\ LET r == ApplyAt(table, sf[t].op, sf[t].key, sf[t].value, sf[t].pos) IN
       /\ table' = r.table
       /\ hist' = Append(hist, [op |-> sf[t].op, key |-> sf[t].key,
                                value |-> sf[t].value, ret |-> r.ret, out |-> r.out])
    /\ locks' = [i \in 0 .. StripeCount - 1 |-> IF locks[i] = t THEN Free ELSE locks[i]]
    /\ sf' = [sf EXCEPT ![t] = IdleStore]
    /\ UNCHANGED <<ringVars, prod, cons, obs, pushed, popped, calls, responses,
                   running, srv, wk, pidOf, next_task_id, cl, executed,
                   stored, sz, added, removed>>

StoreStep(t) ==
    \/ StoreLock(t)
    \/ StoreScan(t)
    \/ StoreApply(t)

\* The thread that calls size(): the holder name of its unique_locks.
SizeCaller == "size"

\* The threads that call size(): the server's main thread and another.
SizeCallers == {SizeCaller, "size2"}

\* No call of size() in progress. next is the stripe to lock or the bucket
\* to count next, total is total_size, calls counts the calls made.
IdleSize == [pc |-> "idle", next |-> 0, total |-> 0, calls |-> 0]

\* size() is entered: all_locks is empty.
StorageSizeCall(c) ==
    /\ sz[c].pc = "idle"
    /\ sz[c].calls < MaxSizeCalls
    /\ sz' = [sz EXCEPT ![c] = [pc |-> "lock", next |-> 0, total |-> 0,
                              calls |-> sz[c].calls + 1]]
    /\ UNCHANGED <<ringVars, prod, cons, obs, pushed, popped, calls, responses,
                   table, running, srv, wk, pidOf, next_task_id, cl, executed,
                   stored, locks, sf, hist, added, removed>>

\* A size() that walks over the stripes and locks none.
StorageSizeLock_none(c) ==
    /\ sz[c].pc = "lock"
    /\ sz' = IF sz[c].next + 1 = StripeCount
             THEN [sz EXCEPT ![c].pc = "count", ![c].next = 0]
             ELSE [sz EXCEPT ![c].next = sz[c].next + 1]
    /\ UNCHANGED <<ringVars, prod, cons, obs, pushed, popped, calls, responses,
                   table, running, srv, wk, pidOf, next_task_id, cl, executed,
                   stored, locks, sf, hist, added, removed>>

\* A size() that takes the stripes it does not hold yet in any order.
StorageSizeLock_any_order(c) ==
    /\ sz[c].pc = "lock"
    /\ \E i \in 0 .. StripeCount - 1 :
          /\ locks[i] # c
          /\ CanLock(i)
          /\ locks' = [locks EXCEPT ![i] = c]
    /\ sz' = IF sz[c].next + 1 = StripeCount
             THEN [sz EXCEPT ![c].pc = "count", ![c].next = 0]
             ELSE [sz EXCEPT ![c].next = sz[c].next + 1]
    /\ UNCHANGED <<ringVars, prod, cons, obs, pushed, popped, calls, responses,
                   table, running, srv, wk, pidOf, next_task_id, cl, executed,
                   stored, sf, hist, added, removed>>

\* for (auto& lock : locks) all_locks.emplace_back(lock);
StorageSizeLock(c) ==
    /\ sz[c].pc = "lock"
    /\ CanLock(sz[c].next)
    /\ locks' = [locks EXCEPT ![sz[c].next] = c]
    /\ sz' = IF sz[c].next + 1 = StripeCount
             THEN [sz EXCEPT ![c].pc = "count", ![c].next = 0]
             ELSE [sz EXCEPT ![c].next = sz[c].next + 1]
    /\ UNCHANGED <<ringVars, prod, cons, obs, pushed, popped, calls, responses,
                   table, running, srv, wk, pidOf, next_task_id, cl, executed,
                   stored, sf, hist, added, removed>>

\* for (const auto& bucket : table) total_size += bucket.size();
StorageSizeCount(c) ==
    /\ sz[c].pc = "count"
    /\ sz' = IF sz[c].next + 1 = NumBuckets
             THEN [sz EXCEPT ![c].pc = "ret", ![c].total = @ + Len(table[sz[c].next])]
             ELSE [sz EXCEPT ![c].next = sz[c].next + 1, ![c].total = @ + Len(table[sz[c].next])]
    /\ UNCHANGED <<ringVars, prod, cons, obs, pushed, popped, calls, responses,
                   table, running, srv, wk, pidOf, next_task_id, cl, executed,
                   stored, locks, sf, hist, added, removed>>

\* return total_size; all_locks is destroyed and releases every stripe.
StorageSizeReturn(c) ==
    /\ sz[c].pc = "ret"
    /\ locks' = [i \in 0 .. StripeCount - 1 |->
                    IF locks[i] = c THEN Free ELSE locks[i]]
    /\ sz' = [sz EXCEPT ![c].pc = "idle"]
    /\ UNCHANGED <<ringVars, prod, cons, obs, pushed, popped, calls, responses,
                   table, running, srv, wk, pidOf, next_task_id, cl, executed,
                   stored, sf, hist, added, removed>>

StorageSizeStep(c) ==
    \/ StorageSizeCall(c)
    \/ StorageSizeLock(c)
    \/ StorageSizeCount(c)
    \/ StorageSizeReturn(c)

(* ------------------------------------------------------------------ *)
(* KVSServer                                                            *)
(* ------------------------------------------------------------------ *)
\* A worker the pool does not hold. present and old are history: whether
\* the store held the key of the request, and with which value, when
\* process_task ran its operation.
NoWorker ==
    [pc |-> "none", task |-> NoTask, found |-> FALSE, value |-> 0,
     status |-> RESPONSE_PENDING, present |-> FALSE, old |-> 0]

WorkerAt(pc) == [NoWorker EXCEPT !.pc = pc]

\* history: the entries of the store, whatever their bucket.
EntriesOf(tb) ==
    UNION {{tb[b][i] : i \in 1 .. Len(tb[b])} : b \in 0 .. NumBuckets - 1}

Present(tb, key) == \E e \in EntriesOf(tb) : e.first = key

ValueOf(tb, key) ==
    IF Present(tb, key)
    THEN (CHOOSE e \in EntriesOf(tb) : e.first = key).second
    ELSE 0

\* A thread that is in no call of the server. stops and returned are
\* history: the calls of stop() by this thread that have returned, and
\* whether one has returned since the server was last started.
IdleCaller == [pc |-> "idle", stops |-> 0, returned |-> FALSE]

\* No call of stop() is in progress.
NoStopInProgress == \A c \in Callers : srv[c].pc = "idle"

\* What start() returns: the outcome of running.compare_exchange_strong(false, true).
StartReturns == ~running

\* A start() that does not look at the running flag.
Start_unchecked(pool) ==
    /\ NoStopInProgress
    /\ running' = TRUE
    /\ wk' = [w \in Workers |-> IF w \in pool THEN WorkerAt("loop") ELSE NoWorker]
    /\ srv' = [c \in Callers |-> [srv[c] EXCEPT !.returned = FALSE]]
    /\ UNCHANGED <<ringVars, prod, cons, obs, pushed, popped, calls, responses,
                   table, pidOf, next_task_id, cl, executed, stored, storeVars>>

\* bool start(num_threads): pool is the threads it creates.
Start(pool) ==
    /\ NoStopInProgress
    /\ IF ~running
       THEN /\ running' = TRUE
            /\ wk' = [w \in Workers |-> IF w \in pool THEN WorkerAt("loop")
                                                      ELSE NoWorker]
            /\ srv' = [c \in Callers |-> [srv[c] EXCEPT !.returned = FALSE]]
       ELSE UNCHANGED <<running, wk, srv>>
    /\ UNCHANGED <<ringVars, prod, cons, obs, pushed, popped, calls, responses,
                   table, pidOf, next_task_id, cl, executed, stored, storeVars>>

\* void stop(): running.exchange(false); on false it returns ("already
\* stopped"), on true the joins begin.
Stop(c) ==
    /\ srv[c].pc = "idle"
    /\ srv[c].stops < MaxStops
    /\ IF running
       THEN /\ running' = FALSE
            /\ srv' = [srv EXCEPT ![c].pc = "joining"]
       ELSE /\ srv' = [srv EXCEPT ![c].stops = @ + 1, ![c].returned = TRUE]
            /\ UNCHANGED running
    /\ UNCHANGED <<ringVars, prod, cons, obs, pushed, popped, calls, responses,
                   table, wk, pidOf, next_task_id, cl, executed, stored, storeVars>>

\* stop(): every worker.join() has returned; workers.clear().
StopJoined(c) ==
    /\ srv[c].pc = "joining"
    /\ \A w \in Workers : wk[w].pc \in {"exit", "none"}
    /\ wk' = [w \in Workers |-> NoWorker]
    /\ srv' = [srv EXCEPT ![c] = [pc |-> "idle", stops |-> srv[c].stops + 1,
                                  returned |-> TRUE]]
    /\ UNCHANGED <<ringVars, prod, cons, obs, pushed, popped, calls, responses,
                   table, running, pidOf, next_task_id, cl, executed, stored, storeVars>>

\* A worker_thread that loops without looking at the running flag.
WorkerLoop_forever(w) ==
    /\ wk[w].pc = "loop"
    /\ wk' = [wk EXCEPT ![w].pc = "pop"]
    /\ cons' = [cons EXCEPT ![w] = PopFrame(WorkerRetries)]
    /\ UNCHANGED <<ringVars, prod, obs, pushed, popped, calls, responses, table,
                   running, srv, pidOf, next_task_id, cl, executed, stored, storeVars>>

\* worker_thread: while (running.load()) { try_pop(task, 100) ...
WorkerLoop(w) ==
    /\ wk[w].pc = "loop"
    /\ IF running
       THEN /\ wk' = [wk EXCEPT ![w].pc = "pop"]
            /\ cons' = [cons EXCEPT ![w] = PopFrame(WorkerRetries)]
       ELSE /\ wk' = [wk EXCEPT ![w].pc = "exit"]
            /\ UNCHANGED cons
    /\ UNCHANGED <<ringVars, prod, obs, pushed, popped, calls, responses, table,
                   running, srv, pidOf, next_task_id, cl, executed, stored, storeVars>>

\* A process_task whose POST reports SUCCESS whatever insert answered.
StatusFor_post_blind(cmd, ret) ==
    CASE cmd = CMD_GET    -> IF ret THEN RESPONSE_SUCCESS ELSE RESPONSE_NOT_FOUND
      [] cmd = CMD_SET    -> RESPONSE_SUCCESS
      [] cmd = CMD_POST   -> RESPONSE_SUCCESS
      [] cmd = CMD_DELETE -> IF ret THEN RESPONSE_SUCCESS ELSE RESPONSE_NOT_FOUND
      [] OTHER            -> RESPONSE_PENDING

\* The status process_task publishes for a command and the store's answer.
StatusFor(cmd, ret) ==
    CASE cmd = CMD_GET    -> IF ret THEN RESPONSE_SUCCESS ELSE RESPONSE_NOT_FOUND
      [] cmd = CMD_SET    -> RESPONSE_SUCCESS
      [] cmd = CMD_POST   -> IF ret THEN RESPONSE_SUCCESS ELSE RESPONSE_FAILED
      [] cmd = CMD_DELETE -> IF ret THEN RESPONSE_SUCCESS ELSE RESPONSE_NOT_FOUND
      [] OTHER            -> RESPONSE_PENDING

\* A process_task that stores the status of a found GET without writing
\* the value first.
Executed_status_first(w, ret, value) ==
    [wk[w] EXCEPT !.found = ret, !.value = value,
                  !.status = StatusFor(wk[w].task.cmd, ret),
                  !.present = Present(table, wk[w].task.key),
                  !.old = ValueOf(table, wk[w].task.key),
                  !.pc = "publish"]

\* process_task after its operation on the store returned ret (and, for a
\* find, value): a found GET writes the value next, the others the status.
Executed(w, ret, value) ==
    [wk[w] EXCEPT !.found = ret, !.value = value,
                  !.status = StatusFor(wk[w].task.cmd, ret),
                  !.present = Present(table, wk[w].task.key),
                  !.old = ValueOf(table, wk[w].task.key),
                  !.pc = IF wk[w].task.cmd = CMD_GET /\ ret
                         THEN "write_value" ELSE "publish"]

\* A process_task that answers an unknown command with FAILED.
UnknownCommand_fails(w) ==
    [wk[w] EXCEPT !.status = RESPONSE_FAILED, !.pc = "publish"]

\* process_task, default: the error is logged, nothing is published, and
\* process_task returns to the loop of worker_thread.
UnknownCommand(w) == WorkerAt("loop")

\* process_task: the switch on task.cmd and the operation on the store.
WorkerExec(w) ==
    LET task == wk[w].task IN
    /\ wk[w].pc = "exec"
    \* std::lock_guard guard(locks[stripe_index]) of the store operation
    /\ task.cmd \in Commands => CanLock(get_stripe_index(task.key))
    /\ CASE task.cmd = CMD_GET ->
              LET r == find(table, task.key, wk[w].value) IN
              /\ table' = table
              /\ wk' = [wk EXCEPT ![w] = Executed(w, r.ret, r.value)]
              /\ UNCHANGED <<stored, added, removed>>
         [] task.cmd = CMD_SET ->
              /\ table' = insert_or_assign(table, task.key, task.value)
              /\ wk' = [wk EXCEPT ![w] = Executed(w, TRUE, wk[w].value)]
              /\ stored' = stored \cup {<<task.key, task.value>>}
              /\ added' = IF Present(table, task.key) THEN added ELSE added + 1
              /\ UNCHANGED removed
         [] task.cmd = CMD_POST ->
              LET r == insert(table, task.key, task.value) IN
              /\ table' = r.table
              /\ wk' = [wk EXCEPT ![w] = Executed(w, r.ret, wk[w].value)]
              /\ stored' = IF r.ret THEN stored \cup {<<task.key, task.value>>}
                                    ELSE stored
              /\ added' = IF r.ret THEN added + 1 ELSE added
              /\ UNCHANGED removed
         [] task.cmd = CMD_DELETE ->
              LET r == erase(table, task.key) IN
              /\ table' = r.table
              /\ wk' = [wk EXCEPT ![w] = Executed(w, r.ret, wk[w].value)]
              /\ removed' = IF r.ret THEN removed + 1 ELSE removed
              /\ UNCHANGED <<stored, added>>
         [] OTHER ->
              /\ wk' = [wk EXCEPT ![w] = UnknownCommand(w)]
              /\ UNCHANGED <<table, stored, added, removed>>
    /\ executed' = Append(executed, task)
    /\ UNCHANGED <<ringVars, prod, cons, obs, pushed, popped, calls, responses,
                   running, srv, pidOf, next_task_id, cl, locks, sf, sz, hist>>

\* process_task, CMD_GET, found: response->value = value;
WorkerWriteValue(w) ==
    /\ wk[w].pc = "write_value"
    /\ responses' = [responses EXCEPT ![get_slot(wk[w].task.task_id)].value = wk[w].value]
    /\ wk' = [wk EXCEPT ![w].pc = "publish"]
    /\ UNCHANGED <<ringVars, prod, cons, obs, pushed, popped, calls, table,
                   running, srv, pidOf, next_task_id, cl, executed, stored, storeVars>>

\* A process_task that publishes only while a client waits for the request.
WorkerPublish_deadline(w) ==
    /\ wk[w].pc = "publish"
    /\ responses' =
          IF \E t \in Threads : cl[t].task = wk[w].task /\ cl[t].pc = "wait"
          THEN [responses EXCEPT ![get_slot(wk[w].task.task_id)].status = wk[w].status]
          ELSE responses
    /\ wk' = [wk EXCEPT ![w] = WorkerAt("loop")]
    /\ UNCHANGED <<ringVars, prod, cons, obs, pushed, popped, calls, table,
                   running, srv, pidOf, next_task_id, cl, executed, stored, storeVars>>

\* process_task: response->status.store(status, release); and process_task
\* returns to the loop of worker_thread.
WorkerPublish(w) ==
    /\ wk[w].pc = "publish"
    /\ responses' = [responses EXCEPT ![get_slot(wk[w].task.task_id)].status = wk[w].status]
    /\ wk' = [wk EXCEPT ![w] = WorkerAt("loop")]
    /\ UNCHANGED <<ringVars, prod, cons, obs, pushed, popped, calls, table,
                   running, srv, pidOf, next_task_id, cl, executed, stored, storeVars>>

WorkerStep(w) ==
    \/ WorkerLoop(w)
    \/ PopStep(w)
    \/ WorkerExec(w)
    \/ WorkerWriteValue(w)
    \/ WorkerPublish(w)

(* ------------------------------------------------------------------ *)
(* KVSClient: the synchronous get, set, post and del                    *)
(* ------------------------------------------------------------------ *)
\* A client thread outside any operation. After an operation task, ok and
\* value are what the last operation was and returned: ok is has_value()
\* of a get and the bool of a set, post or del. done is the history of the
\* operations before the last: what each was and returned.
IdleClient ==
    [pc |-> "idle", task |-> NoTask, ok |-> FALSE, value |-> 0, ops |-> 0,
     done |-> <<>>]

\* What the last operation of an idle thread was and returned.
LastResult(t) == [task |-> cl[t].task, ok |-> cl[t].ok, value |-> cl[t].value]

\* The Task X_async builds: GET and DELETE carry no value.
Request(cmd, key, value, pid, task_id) ==
    IF cmd \in {CMD_SET, CMD_POST}
    THEN Task(cmd, key, value, TRUE, pid, task_id)
    ELSE Task(cmd, key, 0, FALSE, pid, task_id)

\* A client that reads the counter and adds to it in two separate steps,
\* of which the second is lost.
AsyncCall_load(t, cmd, key, value) ==
    /\ cl[t].pc = "idle"
    /\ cl' = [cl EXCEPT ![t] = [pc |-> "clear",
                                task |-> Request(cmd, key, value, pidOf[t],
                                                 next_task_id[pidOf[t]]),
                                ok |-> FALSE, value |-> 0, ops |-> cl[t].ops + 1,
                                done |-> IF cl[t].ops = 0 THEN <<>>
                                         ELSE Append(cl[t].done, LastResult(t))]]
    /\ UNCHANGED <<ringVars, prod, cons, obs, pushed, popped, calls, responses,
                   table, running, srv, wk, pidOf, next_task_id, executed, stored,
                   storeVars>>

\* X_async: task.task_id = next_task_id.fetch_add(1); one atomic step. The
\* counter is a 32-bit int; the runs explored here stay far below its
\* largest value.
AsyncCall(t, cmd, key, value) ==
    /\ cl[t].pc = "idle"
    /\ cl' = [cl EXCEPT ![t] = [pc |-> "clear",
                                task |-> Request(cmd, key, value, pidOf[t],
                                                 next_task_id[pidOf[t]]),
                                ok |-> FALSE, value |-> 0, ops |-> cl[t].ops + 1,
                                done |-> IF cl[t].ops = 0 THEN <<>>
                                         ELSE Append(cl[t].done, LastResult(t))]]
    /\ next_task_id' = [next_task_id EXCEPT ![pidOf[t]] = @ + 1]
    /\ UNCHANGED <<ringVars, prod, cons, obs, pushed, popped, calls, responses,
                   table, running, srv, wk, pidOf, executed, stored, storeVars>>

\* get, set, post, del: the thread starts an operation.
ClientCall(t, cmd, key, value) ==
    /\ cl[t].ops < OpsPerThread
    /\ AsyncCall(t, cmd, key, value)

\* A submit_task that pushes first and clears the slot while it waits.
ClientClear_after_push(t) ==
    \/ /\ cl[t].pc = "clear"
       /\ prod' = [prod EXCEPT ![t] = PushFrame(cl[t].task, MAX_RETRIES, FALSE)]
       /\ cl' = [cl EXCEPT ![t].pc = "push"]
       /\ UNCHANGED <<ringVars, cons, obs, pushed, popped, calls, responses, table,
                      running, srv, wk, pidOf, next_task_id, executed, stored,
                      storeVars>>
    \/ /\ cl[t].pc = "wait"
       /\ responses[get_slot(cl[t].task.task_id)].status # RESPONSE_PENDING
       /\ responses' = [responses EXCEPT ![get_slot(cl[t].task.task_id)].status =
                                               RESPONSE_PENDING]
       /\ UNCHANGED <<ringVars, prod, cons, obs, pushed, popped, calls, table,
                      running, srv, wk, pidOf, next_task_id, cl, executed, stored,
                      storeVars>>

\* submit_task: response_table->clear_slot(task.task_id); then try_push(task).
ClientClear(t) ==
    /\ cl[t].pc = "clear"
    /\ responses' = [responses EXCEPT ![get_slot(cl[t].task.task_id)].status =
                                            RESPONSE_PENDING]
    /\ prod' = [prod EXCEPT ![t] = PushFrame(cl[t].task, MAX_RETRIES, FALSE)]
    /\ cl' = [cl EXCEPT ![t].pc = "push"]
    /\ UNCHANGED <<ringVars, cons, obs, pushed, popped, calls, table,
                   running, srv, wk, pidOf, next_task_id, executed, stored, storeVars>>

\* set_async: submit_task returned true; return task.task_id. The caller
\* does not wait for the response.
AsyncReturn(t) ==
    /\ cl[t].pc = "wait"
    /\ cl' = [cl EXCEPT ![t].pc = "idle", ![t].ok = TRUE]
    /\ UNCHANGED <<ringVars, prod, cons, obs, pushed, popped, calls, responses,
                   table, running, srv, wk, pidOf, next_task_id, executed, stored, storeVars>>

\* wait_for_response: is_completed() is true and the loop ends.
ClientCompleted(t) ==
    /\ cl[t].pc = "wait"
    /\ responses[get_slot(cl[t].task.task_id)].status # RESPONSE_PENDING
    /\ cl' = [cl EXCEPT ![t].pc = "status"]
    /\ UNCHANGED <<ringVars, prod, cons, obs, pushed, popped, calls, responses,
                   table, running, srv, wk, pidOf, next_task_id, executed, stored, storeVars>>

\* wait_for_response: is_completed() is false and elapsed >= timeout: the
\* operation fails.
ClientTimeout(t) ==
    /\ cl[t].pc = "wait"
    /\ responses[get_slot(cl[t].task.task_id)].status = RESPONSE_PENDING
    /\ cl' = [cl EXCEPT ![t].pc = "idle", ![t].ok = FALSE]
    /\ UNCHANGED <<ringVars, prod, cons, obs, pushed, popped, calls, responses,
                   table, running, srv, wk, pidOf, next_task_id, executed, stored, storeVars>>

\* A client that takes every completed response for a success.
ClientStatus_completed(t) ==
    /\ cl[t].pc = "status"
    /\ LET ok == responses[get_slot(cl[t].task.task_id)].status # RESPONSE_PENDING
       IN  cl' = [cl EXCEPT ![t].ok = ok,
                            ![t].pc = IF ok /\ cl[t].task.cmd = CMD_GET
                                      THEN "value" ELSE "idle"]
    /\ UNCHANGED <<ringVars, prod, cons, obs, pushed, popped, calls, responses,
                   table, running, srv, wk, pidOf, next_task_id, executed, stored, storeVars>>

\* response->status.load() == RESPONSE_SUCCESS: set, post and del return
\* it; get returns nullopt when it is false.
ClientStatus(t) ==
    /\ cl[t].pc = "status"
    /\ LET ok == responses[get_slot(cl[t].task.task_id)].status = RESPONSE_SUCCESS
       IN  cl' = [cl EXCEPT ![t].ok = ok,
                            ![t].pc = IF ok /\ cl[t].task.cmd = CMD_GET
                                      THEN "value" ELSE "idle"]
    /\ UNCHANGED <<ringVars, prod, cons, obs, pushed, popped, calls, responses,
                   table, running, srv, wk, pidOf, next_task_id, executed, stored, storeVars>>

\* get: return response->value;
ClientValue(t) ==
    /\ cl[t].pc = "value"
    /\ cl' = [cl EXCEPT ![t].value = responses[get_slot(cl[t].task.task_id)].value,
                        ![t].pc = "idle"]
    /\ UNCHANGED <<ringVars, prod, cons, obs, pushed, popped, calls, responses,
                   table, running, srv, wk, pidOf, next_task_id, executed, stored, storeVars>>

ClientStep(t) ==
    \/ \E cmd \in Commands, key \in Keys, value \in Values :
          ClientCall(t, cmd, key, value)
    \/ ClientClear(t)
    \/ PushStep(t)
    \/ ClientCompleted(t)
    \/ ClientTimeout(t)
    \/ ClientStatus(t)
    \/ ClientValue(t)

(* ------------------------------------------------------------------ *)
(* Initial state: the shared region and the server after construction   *)
(* ------------------------------------------------------------------ *)
InitRingVars ==
    /\ tasks = [i \in 0 .. QUEUE_SIZE - 1 |-> NoTask]
    /\ head = 0
    /\ tail = 0
    /\ version = 0
    /\ prod = [t \in Threads |-> IdleFrame]
    /\ cons = [w \in Workers |-> IdleFrame]
    /\ obs = IdleObserver
    /\ pushed = <<>>
    /\ popped = <<>>
    /\ calls = 0

InitSysVars ==
    /\ responses = EmptyResponses
    /\ table = EmptyTable
    /\ running = FALSE
    /\ srv = [c \in Callers |-> IdleCaller]
    /\ wk = [w \in Workers |-> NoWorker]
    /\ next_task_id = [p \in Pids |-> FirstTaskId]
    /\ cl = [t \in Threads |-> IdleClient]
    /\ executed = <<>>
    /\ stored = {}
    /\ locks = [i \in 0 .. StripeCount - 1 |-> Free]
    /\ sf = [t \in Threads |-> IdleStore]
    /\ sz = [c \in SizeCallers |-> IdleSize]
    /\ hist = <<>>
    /\ added = 0
    /\ removed = 0

(* ------------------------------------------------------------------ *)
(* The system: client threads, the server and its workers               *)
(* ------------------------------------------------------------------ *)
\* The threads of one client process, or one thread in each of two.
Init ==
    /\ InitRingVars
    /\ InitSysVars
    /\ pidOf \in {f \in [Threads -> Pids] : f["t1"] = 1}

Next ==
    \/ Start(Workers)
    \/ \E w \in Workers : WorkerStep(w)
    \/ \E t \in Threads : ClientStep(t)

Spec == Init /\ [][Next]_vars

(* ------------------------------------------------------------------ *)
(* The ring alone: threads that call try_push and try_pop directly with *)
(* unique requests.                                                     *)
(* ------------------------------------------------------------------ *)
\* The request of the n-th call.
UniqueTask(n) == Task(CMD_SET, n, n, TRUE, 0, n)

RingPushCall(t) ==
    /\ prod[t].pc = "idle"
    /\ calls < MaxPush
    /\ calls' = calls + 1
    /\ prod' = [prod EXCEPT ![t] = PushFrame(UniqueTask(calls + 1), MAX_RETRIES, FALSE)]
    /\ UNCHANGED <<ringVars, cons, obs, pushed, popped, responses, table, running,
                   srv, wk, pidOf, next_task_id, cl, executed, stored, storeVars>>

RingPopCall(w) ==
    /\ cons[w].pc = "idle"
    /\ cons' = [cons EXCEPT ![w] = PopFrame(MAX_RETRIES)]
    /\ UNCHANGED <<ringVars, prod, obs, pushed, popped, calls, responses, table,
                   running, srv, wk, pidOf, next_task_id, cl, executed, stored, storeVars>>

InitRing ==
    /\ InitRingVars
    /\ InitSysVars
    /\ pidOf = [t \in Threads |-> 1]

NextRing ==
    \/ \E t \in Threads : RingPushCall(t) \/ PushStep(t)
    \/ \E w \in Workers : RingPopCall(w) \/ PopStep(w)

SpecRing == InitRing /\ [][NextRing]_vars

\* One producer and one consumer whose calls have a budget of more rounds
\* than the backoff takes to run through its values.
BackoffRetries == 9

\* try_push(task, max_retries) with a budget given by the caller.
TryPushCall(t, max_retries) ==
    /\ prod[t].pc = "idle"
    /\ calls < MaxPush
    /\ calls' = calls + 1
    /\ prod' = [prod EXCEPT ![t] = PushFrame(UniqueTask(calls + 1), max_retries, FALSE)]
    /\ UNCHANGED <<ringVars, cons, obs, pushed, popped, responses, table, running,
                   srv, wk, pidOf, next_task_id, cl, executed, stored, storeVars>>

\* try_pop(task, max_retries) with a budget given by the caller.
TryPopCall(w, max_retries) ==
    /\ cons[w].pc = "idle"
    /\ cons' = [cons EXCEPT ![w] = PopFrame(max_retries)]
    /\ UNCHANGED <<ringVars, prod, obs, pushed, popped, calls, responses, table,
                   running, srv, wk, pidOf, next_task_id, cl, executed, stored,
                   storeVars>>

NextBackoffRing ==
    \/ TryPushCall("t1", BackoffRetries) \/ PushStep("t1")
    \/ TryPopCall("w1", BackoffRetries) \/ PopStep("w1")

SpecBackoff == InitRing /\ [][NextBackoffRing]_vars

\* The ring under one producer and two consumers.
NextRingOneProducer ==
    \/ RingPushCall("t1") \/ PushStep("t1")
    \/ \E w \in Workers : RingPopCall(w) \/ PopStep(w)

SpecRingOneProducer == InitRing /\ [][NextRingOneProducer]_vars

\* The same under fair scheduling: a thread inside try_push or try_pop
\* that can take a step eventually takes one.
SpecRingFair ==
    /\ InitRing
    /\ [][NextRingOneProducer]_vars
    /\ WF_vars(PushStep("t1"))
    /\ \A w \in Workers : WF_vars(PopStep(w))

(* ------------------------------------------------------------------ *)
(* The ring with an observer that calls size() while the threads push   *)
(* and pop.                                                             *)
(* ------------------------------------------------------------------ *)
SizeStep ==
    \/ SizeLoadTail
    \/ SizeLoadHead
    \/ SizeReturn

\* One thread pushes, one pops and one observes.
NextSize ==
    \/ RingPushCall("t1")
    \/ PushStep("t1")
    \/ RingPopCall("w1")
    \/ PopStep("w1")
    \/ SizeStep

SpecSize == InitRing /\ [][NextSize]_vars

(* ------------------------------------------------------------------ *)
(* The server under a thread that pushes requests into the ring with    *)
(* push(), as the server's test does.                                   *)
(* ------------------------------------------------------------------ *)
ServerValues == {1, 2}

\* The commands of the protocol and one that is none of them.
ServerCommands == Commands \cup {CMD_DELETE + 1}

\* Task task{cmd, key, value, ..., task_id}; context.task_queue.push(task);
ServerPushCall(t, cmd, key, value) ==
    /\ prod[t].pc = "idle"
    /\ calls < MaxServerPush
    /\ calls' = calls + 1
    /\ prod' = [prod EXCEPT ![t] = PushFrame(Request(cmd, key, value, 0, calls + 1),
                                             MAX_RETRIES, TRUE)]
    /\ UNCHANGED <<ringVars, cons, obs, pushed, popped, responses, table, running,
                   srv, wk, pidOf, next_task_id, cl, executed, stored, storeVars>>

\* server.start(1)
NextServer ==
    \/ Start({"w1"})
    \/ \E cmd \in ServerCommands, key \in Keys, value \in ServerValues :
          ServerPushCall("t1", cmd, key, value)
    \/ PushStep("t1")
    \/ \E w \in Workers : WorkerStep(w)

SpecServer == InitRing /\ [][NextServer]_vars

(* ------------------------------------------------------------------ *)
(* One client thread and a server with one worker                       *)
(* ------------------------------------------------------------------ *)
NextClient ==
    \/ Start({"w1"})
    \/ \E w \in Workers : WorkerStep(w)
    \/ \E cmd \in Commands, key \in Keys, value \in Values :
          cl["t1"].ops < ClientOps /\ AsyncCall("t1", cmd, key, value)
    \/ ClientClear("t1")
    \/ PushStep("t1")
    \/ ClientCompleted("t1")
    \/ ClientTimeout("t1")
    \/ ClientStatus("t1")
    \/ ClientValue("t1")

SpecClient == InitRing /\ [][NextClient]_vars

(* ------------------------------------------------------------------ *)
(* Two client threads and a server that keeps running, its worker       *)
(* scheduled fairly                                                     *)
(* ------------------------------------------------------------------ *)
NextLive ==
    \/ Start({"w1"})
    \/ \E w \in Workers : WorkerStep(w)
    \/ \E t \in Threads : ClientStep(t)

\* start() returns and the worker thread keeps being scheduled; nothing is
\* assumed of the client threads.
SpecLive ==
    /\ InitRing
    /\ [][NextLive]_vars
    /\ WF_vars(Start({"w1"}))
    /\ WF_vars(WorkerStep("w1"))

(* ------------------------------------------------------------------ *)
(* The threads of one or two clients issue tickets and submit; no       *)
(* server has been started, so operations time out or fail to submit    *)
(* ------------------------------------------------------------------ *)
InitTickets ==
    /\ InitRingVars
    /\ InitSysVars
    /\ pidOf \in {f \in [Threads -> Pids] : f["t1"] = 1}

NextTickets ==
    \E t \in Threads :
        \/ \E key \in Keys :
              cl[t].ops < TicketOps /\ AsyncCall(t, CMD_GET, key, 0)
        \/ ClientClear(t)
        \/ PushStep(t)
        \/ ClientTimeout(t)

SpecTickets == InitTickets /\ [][NextTickets]_vars

(* ------------------------------------------------------------------ *)
(* The life cycle: threads that start and stop the server while a       *)
(* thread pushes requests and the worker serves them                    *)
(* ------------------------------------------------------------------ *)
NextLife ==
    \/ Start({"w1"})
    \/ \E c \in Callers : Stop(c)
    \/ \E c \in Callers : StopJoined(c)
    \/ \E cmd \in {CMD_GET, CMD_SET} :
          ServerPushCall("t1", cmd, 1, 1)
    \/ PushStep("t1")
    \/ \E w \in Workers : WorkerStep(w)

SpecLife == InitRing /\ [][NextLife]_vars

\* The life cycle under fair scheduling: a worker thread that can take a
\* step eventually takes one, and a join whose thread has ended returns.
SpecLifeFair ==
    /\ InitRing
    /\ [][NextLife]_vars
    /\ \A w \in Workers : WF_vars(WorkerStep(w))
    /\ \A c \in Callers : WF_vars(StopJoined(c))

(* ------------------------------------------------------------------ *)
(* One client thread that performs its operations one after the other   *)
(* against a running server, with a timeout that never expires          *)
(* ------------------------------------------------------------------ *)
SeqValues == {1, 2}

SeqClientStep(t) ==
    \/ \E cmd \in Commands, key \in Keys, value \in SeqValues :
          /\ running
          /\ cl[t].ops < SeqOps
          /\ AsyncCall(t, cmd, key, value)
    \/ ClientClear(t)
    \/ PushStep(t)
    \/ ClientCompleted(t)
    \/ ClientStatus(t)
    \/ ClientValue(t)

\* server.start(num_workers) with two workers.
NextSeq ==
    \/ Start(Workers)
    \/ \E w \in Workers : WorkerStep(w)
    \/ SeqClientStep("t1")

SpecSeq == InitRing /\ [][NextSeq]_vars

(* ------------------------------------------------------------------ *)
(* One client thread that calls set_async and get_async and a server     *)
(* with two workers                                                     *)
(* ------------------------------------------------------------------ *)
AsyncOps == 2

AsyncValues == {1, 2}

NextAsync ==
    \/ Start(Workers)
    \/ \E w \in Workers : WorkerStep(w)
    \/ \E cmd \in {CMD_SET, CMD_GET}, key \in Keys, value \in AsyncValues :
          /\ running
          /\ cl["t1"].ops < AsyncOps
          /\ AsyncCall("t1", cmd, key, value)
    \/ ClientClear("t1")
    \/ PushStep("t1")
    \/ AsyncReturn("t1")

SpecAsync == InitRing /\ [][NextAsync]_vars

(* ------------------------------------------------------------------ *)
(* The store alone: threads that call ConcurrentHashMap directly        *)
(* ------------------------------------------------------------------ *)
\* Two keys of one bucket, and so of one stripe, and a key of another
\* stripe; the values the calls pass.
StoreKeys == {1, 1 + NumBuckets, 2}
StoreValues == {1, 2}
StoreOps == {"insert", "insert_or_assign", "find", "erase"}

NextStore ==
    \/ \E t \in Threads, op \in StoreOps, key \in StoreKeys, value \in StoreValues :
           StoreCall(t, op, key, value)
    \/ \E t \in Threads : StoreStep(t)

SpecStore == InitRing /\ [][NextStore]_vars

\* One thread changes the store while another calls size().
NextStoreSize ==
    \/ \E op \in StoreOps \ {"find"}, key \in StoreKeys :
           StoreCall("t1", op, key, 1)
    \/ StoreStep("t1")
    \/ StorageSizeStep(SizeCaller)

SpecStoreSize == InitRing /\ [][NextStoreSize]_vars

\* Two threads call size() while two threads call insert on keys of both
\* stripes. Under fair scheduling a thread inside a call that can
\* take a step eventually takes one.
LockKeys == {1, 2}

NextStoreLocks ==
    \/ \E t \in Threads, key \in LockKeys : StoreCall(t, "insert", key, 1)
    \/ \E t \in Threads : StoreStep(t)
    \/ \E c \in SizeCallers : StorageSizeStep(c)

SpecStoreLocks ==
    /\ InitRing
    /\ [][NextStoreLocks]_vars
    /\ \A t \in Threads : WF_vars(StoreStep(t))
    /\ \A c \in SizeCallers :
          WF_vars(StorageSizeLock(c) \/ StorageSizeCount(c) \/ StorageSizeReturn(c))

(* ------------------------------------------------------------------ *)
(* The server's test with its final storage_size()                      *)
(* ------------------------------------------------------------------ *)
\* The keys of the test's SET, POST and DELETE batches, and its GETs.
StorageKeys == {1, 2}

\* The main thread pushes requests and calls server.storage_size(), one
\* call after the other; the worker runs beside it.
NextStorage ==
    \/ Start({"w1"})
    \/ \E cmd \in Commands, key \in StorageKeys :
          sz[SizeCaller].pc = "idle" /\ ServerPushCall("t1", cmd, key, 1)
    \/ PushStep("t1")
    \/ \E w \in Workers : WorkerStep(w)
    \/ prod["t1"].pc = "idle" /\ StorageSizeCall(SizeCaller)
    \/ StorageSizeLock(SizeCaller)
    \/ StorageSizeCount(SizeCaller)
    \/ StorageSizeReturn(SizeCaller)

SpecStorage == InitRing /\ [][NextStorage]_vars

(* ------------------------------------------------------------------ *)
(* Properties                                                           *)
(* ------------------------------------------------------------------ *)
Range(seq) == {seq[i] : i \in 1 .. Len(seq)}

Count(seq, x) == Cardinality({i \in 1 .. Len(seq) : seq[i] = x})

SameMultiset(a, b) ==
    \A x \in Range(a) \cup Range(b) : Count(a, x) = Count(b, x)

\* No call of try_push or try_pop is in progress.
RingQuiet ==
    /\ \A t \in Threads : prod[t].pc = "idle"
    /\ \A w \in Workers : cons[w].pc = "idle"

\* Requests pushed with true and not yet returned by a pop.
Unconsumed == Len(pushed) - Len(popped)

\* C1: no request is lost or duplicated. Once the ring has drained (the
\* cursors are equal and no call is in progress), the multiset of the
\* requests successful pops returned equals the multiset of the requests
\* whose push returned true.
C1_NoLossNoDuplication ==
    (RingQuiet /\ head % QUEUE_SIZE = tail % QUEUE_SIZE)
        => SameMultiset(popped, pushed)

\* C2: tail never overtakes head. In every reachable state the ring holds
\* at most QUEUE_SIZE - 1 requests that were pushed with true and not yet
\* popped.
C2_TailNeverOvertakesHead == Unconsumed <= QUEUE_SIZE - 1

\* C3: head never overtakes tail. The number of successful pops never
\* exceeds the number of successful pushes.
C3_HeadNeverOvertakesTail == Len(popped) <= Len(pushed)

\* C4: backpressure. While the ring holds QUEUE_SIZE - 1 unconsumed
\* requests and no consumer is in try_pop, no step of a try_push moves
\* tail or head, returns true, or changes one of the stored requests.
C4_Backpressure ==
    [][(Unconsumed = QUEUE_SIZE - 1 /\ \A w \in Workers : cons[w].pc = "idle")
          => /\ tail' = tail
             /\ head' = head
             /\ pushed' = pushed
             /\ \A k \in 0 .. QUEUE_SIZE - 2 :
                   tasks'[(head + k) % QUEUE_SIZE] = tasks[(head + k) % QUEUE_SIZE]]_vars

\* C5: every value size() returns, whatever pushes and pops happen
\* between its two loads, is at most QUEUE_SIZE - 1.
C5_SizeAtMostCapacity ==
    obs.pc = "ret" => obs.size <= QUEUE_SIZE - 1

\* C5, reached: size() returns QUEUE_SIZE - 1 from the wrapped branch
\* (its tail is below its head) after the ring has wrapped, while a
\* try_push and a try_pop are in progress.
C5_Witness ==
    /\ obs.pc = "ret"
    /\ obs.current_tail < obs.current_head
    /\ obs.size = QUEUE_SIZE - 1
    /\ Len(pushed) >= QUEUE_SIZE
    /\ prod["t1"].pc # "idle"
    /\ cons["w1"].pc # "idle"

\* C6: no submitted request is executed against the store by two
\* workers, or twice: the requests process_task ran are pairwise distinct
\* (a request is identified by its client_pid and its ticket).
C6_ExecutedOnce ==
    \A i, j \in 1 .. Len(executed) : i # j => executed[i] # executed[j]

\* C7: completion monotonicity. After a client thread has cleared the
\* slot of its ticket and until it has read the status, a terminal status
\* in that slot neither reverts to PENDING nor changes to another one.
C7_CompletionMonotonic ==
    [][\A t \in Threads :
          (/\ cl[t].pc \in {"push", "wait", "status"}
           /\ responses[get_slot(cl[t].task.task_id)].status # RESPONSE_PENDING)
          => responses'[get_slot(cl[t].task.task_id)].status
                = responses[get_slot(cl[t].task.task_id)].status]_vars

\* C8: a get(k) that observed SUCCESS returns a value that a SET or a
\* successful POST stored for k earlier.
C8_GetReturnsStoredValue ==
    \A t \in Threads :
        (cl[t].pc = "idle" /\ cl[t].task.cmd = CMD_GET /\ cl[t].ok)
            => <<cl[t].task.key, cl[t].value>> \in stored

\* C9: a client observes only the status published for its own request:
\* an operation that returned success saw SUCCESS in its slot, so its own
\* request has been run by process_task.
C9_OwnResponseOnly ==
    \A t \in Threads :
        (cl[t].pc \in {"idle", "value"} /\ cl[t].ok)
            => cl[t].task \in Range(executed)

\* The status the protocol gives a command on a key that is, or is not,
\* in the store.
ExpectedStatus(cmd, present) ==
    CASE cmd = CMD_GET    -> IF present THEN RESPONSE_SUCCESS ELSE RESPONSE_NOT_FOUND
      [] cmd = CMD_SET    -> RESPONSE_SUCCESS
      [] cmd = CMD_POST   -> IF present THEN RESPONSE_FAILED ELSE RESPONSE_SUCCESS
      [] cmd = CMD_DELETE -> IF present THEN RESPONSE_SUCCESS ELSE RESPONSE_NOT_FOUND

\* C10: for every dequeued request with a known command the worker
\* publishes the status given by the store's result. A GET of a present
\* key first writes the stored value into the slot; the status the worker
\* then stores is SUCCESS for a GET or DELETE of a present key, for a
\* POST of an absent key and for every SET, NOT_FOUND for a GET or DELETE
\* of an absent key and FAILED for a POST of a present key.
C10_PublishedStatus ==
    [][\A w \in Workers :
          LET task == wk[w].task
              slot == get_slot(task.task_id)
          IN  /\ (wk[w].pc = "exec" /\ wk'[w].pc # "exec" /\ task.cmd \in Commands)
                    => (/\ wk'[w].pc =
                              IF task.cmd = CMD_GET /\ Present(table, task.key)
                              THEN "write_value" ELSE "publish"
                        /\ wk'[w].task = task)
              /\ (wk[w].pc = "write_value" /\ wk'[w].pc # "write_value")
                    => (/\ wk'[w].pc = "publish"
                        /\ wk'[w].task = task
                        /\ wk'[w].present = wk[w].present
                        /\ responses'[slot].value = wk[w].old)
              /\ (wk[w].pc = "publish" /\ wk'[w].pc # "publish")
                    => (responses'[slot].status =
                            ExpectedStatus(task.cmd, wk[w].present))]_vars

\* C10, reached: the worker has run every pushed request, among them a
\* GET that found its key and a POST that did not insert, and the slots
\* hold the value found and FAILED.
C10_Witness ==
    /\ Len(executed) = MaxServerPush
    /\ \A w \in Workers : wk[w].pc \in {"loop", "pop", "none"}
    /\ \E i, j \in 0 .. TABLE_SIZE - 1 :
          /\ responses[i].status = RESPONSE_FAILED
          /\ responses[j].status = RESPONSE_SUCCESS

(* ------------------------------------------------------------------ *)
(* Properties of the store                                              *)
(* ------------------------------------------------------------------ *)
\* The reference map: key -> value, 0 for an absent key.
EmptyMap == [k \in StoreKeys |-> 0]

\* What a reference map answers to a call and the map after it.
MapStep(m, op, key, value) ==
    CASE op = "insert" ->
           IF m[key] = 0
           THEN [map |-> [m EXCEPT ![key] = value], ret |-> TRUE, out |-> 0]
           ELSE [map |-> m, ret |-> FALSE, out |-> 0]
      [] op = "insert_or_assign" ->
           [map |-> [m EXCEPT ![key] = value], ret |-> TRUE, out |-> 0]
      [] op = "find" ->
           [map |-> m, ret |-> m[key] # 0, out |-> m[key]]
      [] op = "erase" ->
           [map |-> [m EXCEPT ![key] = 0], ret |-> m[key] # 0, out |-> 0]

RECURSIVE MapAfter(_, _)
\* The reference map after the first n calls of the history.
MapAfter(h, n) ==
    IF n = 0 THEN EmptyMap
    ELSE MapStep(MapAfter(h, n - 1), h[n].op, h[n].key, h[n].value).map

\* The map the table stands for: what find answers for each key.
MapOf(tb) ==
    [k \in StoreKeys |-> IF find(tb, k, 0).ret THEN find(tb, k, 0).value ELSE 0]

\* C11: every call of insert, insert_or_assign, find and erase returned what
\* a reference map returns for the same sequence of calls, and the table
\* stands for the reference map after them.
C11_BehavesAsReferenceMap ==
    /\ \A n \in 1 .. Len(hist) :
          LET r == MapStep(MapAfter(hist, n - 1), hist[n].op, hist[n].key,
                           hist[n].value)
          IN  hist[n].ret = r.ret /\ hist[n].out = r.out
    /\ MapOf(table) = MapAfter(hist, Len(hist))

\* An insert of a present key returned false, an erase of a present key
\* returned true and a find returned the value an upsert wrote over another.
C11_Witness ==
    \E i, j \in 1 .. Len(hist) :
        /\ i < j
        /\ hist[i].op = "insert" /\ ~hist[i].ret
        /\ hist[j].op = "find" /\ hist[j].ret /\ hist[j].out = 2
        /\ \A t \in Threads : sf[t].pc = "idle"

\* The places of the table that hold an entry of the key.
PlacesOf(tb, key) ==
    UNION {{<<b, i>> : i \in {j \in 1 .. Len(tb[b]) : tb[b][j].first = key}} :
              b \in 0 .. NumBuckets - 1}

\* C12: whatever the interleaving of concurrent insert, insert_or_assign and
\* erase calls, the table never holds two entries of the same key.
C12_OneEntryPerKey ==
    \A k \in StoreKeys : Cardinality(PlacesOf(table, k)) <= 1

\* Two threads are inside adding calls on the same absent key at once: one
\* holds the stripe and is about to append, the other waits for the stripe.
C12_Witness ==
    \E t, u \in Threads :
        /\ sf[t].pc = "apply" /\ sf[t].pos = 0
        /\ sf[t].op \in {"insert", "insert_or_assign"}
        /\ sf[u].pc = "lock"
        /\ sf[u].op \in {"insert", "insert_or_assign"}
        /\ sf[u].key = sf[t].key

\* The calls of the history on a key, by kind.
CallsOn(k, ops) ==
    {n \in 1 .. Len(hist) : hist[n].key = k /\ hist[n].op \in ops}

\* The POSTs (insert) on a key that returned true.
PostsTrue(k) == {n \in CallsOn(k, {"insert"}) : hist[n].ret}

\* SET (insert_or_assign) and POST (insert) both ran on the key, which was
\* absent before them and which nobody erased.
SetPostRace(k) ==
    /\ CallsOn(k, {"insert"}) # {}
    /\ CallsOn(k, {"insert_or_assign"}) # {}
    /\ CallsOn(k, {"erase"}) = {}

\* The calls before the n-th that wrote the key, and the value the last of
\* them wrote (0: none wrote).
WritesBefore(k, n) ==
    {m \in CallsOn(k, {"insert", "insert_or_assign"}) : m < n /\ hist[m].ret}

LastWrite(k, n) ==
    IF WritesBefore(k, n) = {} THEN 0
    ELSE hist[CHOOSE m \in WritesBefore(k, n) :
                  \A j \in WritesBefore(k, n) : j <= m].value

\* C13 (as amended): when SET and POST calls on one key have raced, POST
\* returned true at most once, and once exactly when a POST took effect before
\* every SET; the table holds one entry for the key, whose value is the last
\* one written, and every GET (find) that follows a write returned the value
\* of the last write before it.
C13_SetPostRace ==
    \A k \in StoreKeys : SetPostRace(k) =>
        LET adds  == CallsOn(k, {"insert", "insert_or_assign"})
            first == CHOOSE m \in adds : \A j \in adds : m <= j
        IN  /\ Cardinality(PostsTrue(k)) <= 1
            /\ (Cardinality(PostsTrue(k)) = 1) <=> (hist[first].op = "insert")
            /\ Cardinality(PlacesOf(table, k)) = 1
            /\ find(table, k, 0).value = LastWrite(k, Len(hist) + 1)
            /\ \A n \in CallsOn(k, {"find"}) :
                   WritesBefore(k, n) # {} =>
                       hist[n].ret /\ hist[n].out = LastWrite(k, n)

\* The SET won the race, the POST returned false and a GET that followed
\* both returned the value of the SET.
C13_Witness ==
    \E k \in StoreKeys :
        /\ SetPostRace(k)
        /\ PostsTrue(k) = {}
        /\ \E n \in CallsOn(k, {"find"}) :
               /\ \A m \in CallsOn(k, {"insert", "insert_or_assign"}) : m < n
               /\ hist[n].ret
               /\ hist[n].out = 2

\* C13 as the specification states it: POST returned true exactly once
\* across every race of SET and POST on one key.
C13_PostTrueExactlyOnce ==
    \A k \in StoreKeys : SetPostRace(k) => Cardinality(PostsTrue(k)) = 1

\* The number of entries of the table.
NumEntries(tb) ==
    Cardinality(UNION {{<<b, i>> : i \in 1 .. Len(tb[b])} : b \in 0 .. NumBuckets - 1})

\* C14: the total size() is about to return is the number of entries the
\* table holds at that instant, while it still holds every stripe lock;
\* calls of other threads that run during the call do not disturb the count.
C14_SizeIsExactSnapshot ==
    sz[SizeCaller].pc = "ret" =>
        /\ sz[SizeCaller].total = NumEntries(table)
        /\ \A i \in 0 .. StripeCount - 1 : locks[i] = SizeCaller

\* size() is about to return 2 while another thread is inside a call and
\* waits for its stripe.
C14_Witness ==
    /\ sz[SizeCaller].pc = "ret"
    /\ sz[SizeCaller].total = 2
    /\ sf["t1"].pc = "lock"

\* Every request the main thread pushed has been processed and no worker
\* is executing one.
Quiescent ==
    /\ prod["t1"].pc = "idle"
    /\ Len(executed) = calls
    /\ \A w \in Workers : wk[w].pc \in {"none", "loop", "pop", "exit"}

\* C15: when storage_size() returns at quiescence, its result is the number
\* of processed requests that added a key (POSTs that succeeded and SETs of
\* absent keys) minus the number of DELETEs that succeeded.
C15_SizeAtQuiescence ==
    (sz[SizeCaller].pc = "ret" /\ Quiescent) => sz[SizeCaller].total = added - removed

\* storage_size() is about to return at quiescence, after a request added
\* a key and a DELETE removed it.
C15_Witness ==
    /\ sz[SizeCaller].pc = "ret"
    /\ Quiescent
    /\ added = 1
    /\ removed = 1
    /\ sz[SizeCaller].total = 0

\* The store call a command stands for.
OpOf(cmd) ==
    CASE cmd = CMD_GET -> "find"
      [] cmd = CMD_SET -> "insert_or_assign"
      [] cmd = CMD_POST -> "insert"
      [] cmd = CMD_DELETE -> "erase"

\* The operations a client thread has completed, in order, with what each
\* returned.
Completed(t) ==
    IF cl[t].pc = "idle" /\ cl[t].ops > 0
    THEN Append(cl[t].done, LastResult(t))
    ELSE cl[t].done

\* The completed operations as calls of a map.
AsCalls(log) ==
    [n \in 1 .. Len(log) |->
        [op |-> OpOf(log[n].task.cmd), key |-> log[n].task.key,
         value |-> log[n].task.value]]

\* C16: when every operation of the sequential client was enqueued, every
\* operation it completed returned what a sequential reference map returns
\* for the same sequence of operations:
\* the bool of set, post and del, whether get found the key and the value
\* it returned.
C16_SequentialClientSeesReferenceMap ==
    LET log == Completed("t1")
    IN  (\A n \in 1 .. Len(log) : log[n].task \in Range(pushed)) =>
        \A n \in 1 .. Len(log) :
            LET r == MapStep(MapAfter(AsCalls(log), n - 1), OpOf(log[n].task.cmd),
                             log[n].task.key, log[n].task.value)
            IN  /\ log[n].ok = r.ret
                /\ log[n].task.cmd = CMD_GET => log[n].value = r.out

\* The status in the slot of the ticket of the thread's operation.
SlotOf(t) == responses[get_slot(cl[t].task.task_id)]

\* What a synchronous operation returns when it returns in this step.
ReturnsAsSpecified(t) ==
    /\ (cl[t].pc # "idle" /\ cl'[t].pc = "idle") =>
          CASE cl[t].pc = "push" ->
                 \* the submission failed
                 ~cl'[t].ok /\ cl'[t].value = 0
            [] cl[t].pc = "wait" ->
                 \* the timeout expired
                 ~cl'[t].ok /\ cl'[t].value = 0
            [] cl[t].pc = "status" ->
                 \* set, post, del: SUCCESS or not; get: not SUCCESS
                 /\ cl'[t].ok = (SlotOf(t).status = RESPONSE_SUCCESS)
                 /\ cl[t].task.cmd = CMD_GET => ~cl'[t].ok /\ cl'[t].value = 0
            [] cl[t].pc = "value" ->
                 \* get: SUCCESS was observed
                 /\ cl'[t].ok
                 /\ cl[t].task.cmd = CMD_GET
                 /\ cl'[t].value = SlotOf(t).value
            [] OTHER -> FALSE
    /\ (cl[t].pc = "status" /\ cl'[t].pc = "value") =>
          /\ SlotOf(t).status = RESPONSE_SUCCESS
          /\ cl[t].task.cmd = CMD_GET
          /\ cl'[t].ok

\* C17: get returns the value of the slot exactly when the status it reads
\* is SUCCESS and None otherwise, on timeout and on submission failure; set,
\* post and del return true exactly when the status they read is SUCCESS
\* and false otherwise, on timeout and on submission failure.
C17_ResultMapping ==
    [][\A t \in Threads : ReturnsAsSpecified(t)]_vars

\* A get has returned a value and, before it, an operation of the same
\* thread returned false.
C17_Witness ==
    \E t \in Threads :
        /\ cl[t].pc = "idle"
        /\ cl[t].task.cmd = CMD_GET
        /\ cl[t].ok
        /\ cl[t].value # 0
        /\ \E n \in 1 .. Len(cl[t].done) : ~cl[t].done[n].ok

\* The submission of the thread's operation is at its first look at the
\* cursors and the ring is full.
SeesFullFirst(t) ==
    /\ cl[t].pc = "push"
    /\ prod[t].pc = "load_head"
    /\ prod[t].retries = 0
    /\ IsFull(prod[t].current_tail, head)

\* C18: a client whose submission finds the task queue full retries: after
\* the first full observation the operation is still being submitted, it has
\* not failed.
C18_ClientRetriesWhenFull ==
    [][\A t \in Threads : SeesFullFirst(t) => cl'[t].pc = "push"]_vars

\* The requests the client threads can build.
ClientTasks ==
    {Request(cmd, key, value, 1, id) :
        cmd \in Commands, key \in Keys, value \in Values,
        id \in FirstTaskId .. FirstTaskId + Cardinality(Threads) * OpsPerThread - 1}

\* The request was dequeued and executed and the worker that executed it
\* has published its status.
Served(task) ==
    /\ task \in Range(popped)
    /\ task \in Range(executed)
    /\ \A w \in Workers : wk[w].task # task

\* C19: while the server keeps running with its worker scheduled, every
\* request whose enqueue returned true is eventually dequeued and executed
\* and its status published.
C19_EnqueuedIsEventuallyServed ==
    \A task \in ClientTasks : (task \in Range(pushed)) ~> Served(task)

\* The tickets a thread has been issued so far.
Issued(t) ==
    {cl[t].done[n].task.task_id : n \in 1 .. Len(cl[t].done)}
        \cup (IF cl[t].ops > 0 THEN {cl[t].task.task_id} ELSE {})

\* The tickets issued so far by the client the thread belongs to.
IssuedByClientOf(t) ==
    UNION {Issued(u) : u \in {v \in Threads : pidOf[v] = pidOf[t]}}

\* C20: the ticket a thread is issued is at least 1 and larger than every
\* ticket its client has issued before, to this thread or to another and
\* whether or not the submission that used it succeeded; so no ticket is
\* issued twice.
C20_TicketsStrictlyIncrease ==
    [][\A t \in Threads :
          cl'[t].ops = cl[t].ops + 1 =>
              /\ cl'[t].task.task_id >= FirstTaskId
              /\ \A k \in IssuedByClientOf(t) : k < cl'[t].task.task_id
              /\ next_task_id'[pidOf[t]] > cl'[t].task.task_id]_vars

\* A thread whose first submission failed holds a later ticket, and a
\* thread of the same client was issued a ticket between the two.
C20_Witness ==
    \E t, u \in Threads :
        /\ t # u
        /\ pidOf[t] = pidOf[u]
        /\ Len(cl[t].done) = 1
        /\ cl[t].done[1].task \notin Range(pushed)
        /\ cl[u].ops = 1
        /\ cl[t].done[1].task.task_id < cl[u].task.task_id
        /\ cl[u].task.task_id < cl[t].task.task_id

\* The call of stop() by thread c returns in this step.
StopReturns(c) == srv'[c].stops = srv[c].stops + 1

\* C21: when a call of stop() returns, is_running() is false and no worker
\* thread is left, running or joinable; so for every call, also a repeated
\* one and one made while another call of stop() is in progress.
C21_StoppedWhenStopReturns ==
    [][\A c \in Callers :
          StopReturns(c) =>
              /\ ~running'
              /\ \A w \in Workers : wk'[w].pc = "none"]_vars

\* The worker threads the server holds.
Spawned(workers) == {w \in Workers : workers[w].pc # "none"}

\* C22: a call of start(n) on a running server returns false, creates no
\* worker and leaves the flag true; on a stopped server it returns true and
\* creates exactly the n workers, each at the top of its loop.
C22_StartOnlyWhenStopped ==
    [][Start({"w1"}) =>
          IF running
          THEN /\ ~StartReturns
               /\ running'
               /\ wk' = wk
          ELSE /\ StartReturns
               /\ Spawned(wk) = {}
               /\ running'
               /\ Spawned(wk') = {"w1"}
               /\ wk'["w1"] = WorkerAt("loop")]_vars

\* The server runs again after a call of stop() returned: it was started
\* when stopped; its worker is busy, so that a second start() must refuse.
C22_Witness ==
    /\ running
    /\ \E c \in Callers : srv[c].stops > 0
    /\ NoStopInProgress
    /\ wk["w1"].pc = "exec"

\* The slot holds a request that a producer published (its try_push
\* returned true) and that no consumer has taken.
PublishedUnconsumed(i) ==
    /\ tasks[i] \in Range(pushed)
    /\ tasks[i] \notin Range(popped)

\* C23: a producer writes its request only into a slot that holds no
\* published and unconsumed request.
C23_WriteSparesPublished ==
    [][\A i \in 0 .. QUEUE_SIZE - 1 :
          tasks'[i] # tasks[i] => ~PublishedUnconsumed(i)]_vars

\* C24: the cursors are monotone counters: a successful try_push moves
\* tail, and a successful try_pop moves head, from the value it loaded to
\* that value plus one, so that neither ever decreases.
C24_CursorsMonotone ==
    [][/\ tail' # tail => tail' = tail + 1
       /\ head' # head => head' = head + 1]_vars

\* C25: no compare-exchange succeeds on a cursor that went away from the
\* caller's snapshot and came back: the request a consumer commits is the
\* one its slot holds at the commit, not a copy taken before the slot was
\* rewritten, and a producer commits only while the ring is not full.
C25_NoABA ==
    [][/\ popped' # popped =>
             popped'[Len(popped')] = tasks[head % QUEUE_SIZE]
       /\ pushed' # pushed => ~IsFull(tail, head)]_vars

\* The worker stores SUCCESS for a GET in this step.
PublishesFoundGet(w) ==
    /\ wk[w].pc = "publish"
    /\ wk[w].task.cmd = CMD_GET
    /\ wk[w].status = RESPONSE_SUCCESS
    /\ wk'[w].pc = "loop"

\* C26: when a worker stores SUCCESS for a GET that found its key, the value
\* it found is already in the response slot: no state shows SUCCESS for
\* the GET while its value is not in place.
C26_ValueBeforeSuccess ==
    [][\A w \in Workers :
          PublishesFoundGet(w) =>
              LET slot == get_slot(wk[w].task.task_id) IN
              /\ responses[slot].value = wk[w].value
              /\ responses'[slot].value = wk[w].value
              /\ responses'[slot].status = RESPONSE_SUCCESS]_vars

\* The client reads SUCCESS for its GET and the value stored for the key is
\* in its slot.
C26_Witness ==
    /\ cl["t1"].pc = "value"
    /\ cl["t1"].task.cmd = CMD_GET
    /\ SlotOf("t1").status = RESPONSE_SUCCESS
    /\ SlotOf("t1").value \in Values
    /\ wk["w1"].pc = "loop"

\* The request of the thread's submission is in a slot of the ring or was
\* published in it.
VisibleInRing(t) ==
    \/ cl[t].task \in Range(pushed)
    \/ \E i \in 0 .. QUEUE_SIZE - 1 : tasks[i] = cl[t].task

\* This step, which is of no other client thread, sets the slot of the
\* thread's submission from a terminal status back to PENDING.
ErasesStatus(t) ==
    LET slot == get_slot(cl[t].task.task_id) IN
    /\ cl[t].pc # "idle"
    /\ \A u \in Threads \ {t} : cl'[u] = cl[u]
    /\ responses[slot].status # RESPONSE_PENDING
    /\ responses'[slot].status = RESPONSE_PENDING

\* C27: a submission clears its slot before its request is visible in the
\* ring, so a clear never erases the status published for the submission
\* that issued it.
C27_ClearBeforeVisible ==
    [][\A t \in Threads :
          /\ cl[t].pc = "clear" => ~VisibleInRing(t)
          /\ ErasesStatus(t) => /\ ~VisibleInRing(t)
                                /\ cl[t].task \notin Range(executed)]_vars

\* The third submission, whose clear erased the status of the first in the
\* slot both use, has its own terminal status published.
C27_Witness ==
    /\ cl["t1"].ops = 3
    /\ cl["t1"].pc = "status"
    /\ cl["t1"].task \in Range(executed)
    /\ cl["t1"].done[1].ok
    /\ SlotOf("t1").status # RESPONSE_PENDING

\* The worker has dequeued a request and not yet published its status.
Holding(w) == wk[w].pc \in {"exec", "write_value", "publish"}

\* Every request dequeued so far was executed and its status published.
DequeuedAreServed ==
    /\ \A w \in Workers : ~Holding(w)
    /\ Range(popped) \subseteq Range(executed)

\* C28: a request a worker had dequeued when stop() was called is executed
\* and its status published before the worker exits and before that call
\* of stop() returns.
C28_InFlightCompletes ==
    [][/\ \A w \in Workers :
            wk[w].pc # "exit" /\ wk'[w].pc = "exit" => DequeuedAreServed
       /\ \A c \in Callers : StopReturns(c) => DequeuedAreServed]_vars

\* A call of stop() has returned and the server was not started since.
StopHasReturned == \E c \in Callers : srv[c].returned

\* C29: from the return of a stop() until the server is started again,
\* nothing is dequeued and neither the store nor a response slot changes:
\* the requests still queued stay in the ring, their slots PENDING.
C29_StoppedServerIsInert ==
    [][(StopHasReturned /\ StopHasReturned') =>
           /\ popped' = popped
           /\ head' = head
           /\ table' = table
           /\ responses' = responses
           /\ executed' = executed]_vars

AtUnknownCommand(w) == wk[w].pc = "exec" /\ wk[w].task.cmd \notin Commands

\* C31: executing a request with an unknown command changes neither the
\* store nor any response slot (its slot keeps the status it had, PENDING
\* after the client's clear), and the worker is back at the top of its
\* loop, where it serves the next request.
C31_UnknownCommandChangesNothing ==
    [][\A w \in Workers :
          (AtUnknownCommand(w) /\ wk'[w] # wk[w]) =>
              /\ table' = table
              /\ stored' = stored
              /\ responses' = responses
              /\ wk'[w].pc = "loop"]_vars

\* A request with an unknown command was executed and its slot is PENDING;
\* the request pushed after it was served and its status published.
C31_Witness ==
    /\ Len(executed) = 2
    /\ executed[1].cmd \notin Commands
    /\ executed[2].cmd \in Commands
    /\ responses[get_slot(executed[1].task_id)].status = RESPONSE_PENDING
    /\ responses[get_slot(executed[2].task_id)].status # RESPONSE_PENDING
    /\ wk["w1"].pc = "loop"

\* The client that submitted the request has stopped waiting for it: its
\* operation has returned (after a timeout, if the request is still to be
\* served).
Abandoned(task) == \A t \in Threads : cl[t].task = task => cl[t].pc = "idle"

\* C32: the server has no deadline. A dequeued request whose client has
\* timed out is executed against the store like any other, and the status
\* of its outcome is written to the slot of its ticket.
C32_NoServerDeadline ==
    [][\A w \in Workers :
          LET task == wk[w].task
              slot == get_slot(task.task_id)
          IN  (Holding(w) /\ Abandoned(task) /\ wk'[w] # wk[w]) =>
                  /\ wk[w].pc = "exec" =>
                        /\ executed' = Append(executed, task)
                        /\ wk'[w].pc \in {"write_value", "publish"}
                        /\ wk'[w].status = StatusFor(task.cmd, wk'[w].found)
                        /\ task.cmd = CMD_SET =>
                              ValueOf(table', task.key) = task.value
                  /\ wk[w].pc = "publish" =>
                        /\ wk[w].status # RESPONSE_PENDING
                        /\ responses'[slot].status = wk[w].status]_vars

\* The client's first operation, a SET, has timed out and returned false;
\* the worker has applied it to the store since and is about to publish.
C32_Witness ==
    /\ cl["t1"].ops = 2
    /\ cl["t1"].done[1].task.cmd = CMD_SET
    /\ ~cl["t1"].done[1].ok
    /\ wk["w1"].pc = "publish"
    /\ wk["w1"].task = cl["t1"].done[1].task
    /\ Present(table, 1)

\* C33: with one producer the requests handed out by successful pops, in
\* the order of their compare-exchange on head, are the requests of the
\* successful pushes in the order they were pushed.
C33_SingleProducerFifo ==
    /\ Len(popped) <= Len(pushed)
    /\ \A i \in 1 .. Len(popped) : popped[i] = pushed[i]

\* C34: the value under a key is that of the SET applied last, whatever
\* the order of submission: two SETs one thread submits in the order
\* v1, v2 can be applied by two workers in the order v2, v1, and then v1
\* is the final value (the witness).
C34_LastAppliedSetWins ==
    LET sets == SelectSeq(executed, LAMBDA task : task.cmd = CMD_SET) IN
    sets # <<>> =>
        ValueOf(table, sets[Len(sets)].key) = sets[Len(sets)].value

\* Both SETs were submitted, v1 before v2, and both were applied, v2
\* before v1: the store holds v1.
C34_Witness ==
    /\ Len(pushed) = 2
    /\ pushed[1].cmd = CMD_SET
    /\ pushed[2].cmd = CMD_SET
    /\ pushed[1].value # pushed[2].value
    /\ pushed[1].task_id < pushed[2].task_id
    /\ executed = <<pushed[2], pushed[1]>>
    /\ ValueOf(table, 1) = pushed[1].value
    /\ cl["t1"].pc = "idle"
    /\ \A w \in Workers : wk[w].pc \in {"loop", "pop"}

\* Two threads insert and erase keys of which two share a bucket and the
\* third is of the other stripe.
NextStoreChains ==
    \/ \E t \in Threads, op \in {"insert", "erase"}, key \in StoreKeys :
           StoreCall(t, op, key, 1)
    \/ \E t \in Threads : StoreStep(t)

SpecStoreChains == InitRing /\ [][NextStoreChains]_vars

\* Hash values over which the bucket and stripe indices are compared: two
\* rounds of the table.
HashValues == 0 .. 2 * NumBuckets - 1

\* The thread holds its stripe lock and reads or changes a bucket chain.
InChain(t) == sf[t].pc \in {"scan", "apply"}

\* C35: keys of one bucket are keys of one stripe (every hash value has
\* the stripe of the bucket index it shares with the others of its
\* bucket), the thread inside a bucket chain holds the lock of that
\* stripe, and no two threads are inside the same chain at once. Threads
\* on different stripes are inside their chains together (the witness).
C35_OneLockPerBucket ==
    /\ \A h \in HashValues :
          get_stripe_index(h) = get_stripe_index(BucketIndex(h))
    /\ \A t \in Threads :
          InChain(t) => locks[get_stripe_index(sf[t].key)] = t
    /\ \A t, u \in Threads :
          (t # u /\ InChain(t) /\ InChain(u)) =>
              BucketIndex(sf[t].key) # BucketIndex(sf[u].key)

\* Two threads are inside the chains of buckets of different stripes at
\* the same time, one of them changing its chain.
C35_Witness ==
    /\ InChain("t1") /\ InChain("t2")
    /\ get_stripe_index(sf["t1"].key) # get_stripe_index(sf["t2"].key)
    /\ sf["t1"].pc = "apply" /\ sf["t1"].op = "erase" /\ sf["t1"].pos # 0
    /\ sf["t2"].pc = "scan"

\* C36: the store is deadlock-free. Under fair scheduling every call of
\* insert, insert_or_assign, find or erase and every call of size() that
\* was entered returns, however the calls overlap.
C36_StoreCallsComplete ==
    /\ \A t \in Threads : (sf[t].pc # "idle") ~> (sf[t].pc = "idle")
    /\ \A c \in SizeCallers : (sz[c].pc # "idle") ~> (sz[c].pc = "idle")

\* One size() holds the first stripe and waits for the second, which a
\* thread inside insert holds; the other size() and the other thread wait
\* for the first stripe.
C36_Witness ==
    /\ sz["size"].pc = "lock" /\ sz["size"].next = 1
    /\ sz["size2"].pc = "lock" /\ sz["size2"].next = 0
    /\ \E t, u \in Threads :
          /\ InChain(t) /\ get_stripe_index(sf[t].key) = 1
          /\ sf[u].pc = "lock" /\ get_stripe_index(sf[u].key) = 0

\* The rounds a call has failed never exceed its budget, and a
\* compare-exchange is attempted only within the budget.
WithinBudget(frame) ==
    /\ frame.retries <= frame.max_retries
    /\ frame.pc = "cas" => frame.retries < frame.max_retries

\* C37: try_push and try_pop do not block. Every call returns, after at
\* most max_retries compare-exchange attempts; a cursor moves only in the
\* step of a call that returns true, so a call that returns false has
\* advanced neither tail nor head.
C37_TryCallsReturn ==
    /\ \A t \in Threads : (prod[t].pc # "idle") ~> (prod[t].pc = "idle")
    /\ \A w \in Workers : (cons[w].pc # "idle") ~> (cons[w].pc = "idle")
    /\ [](\A t \in Threads : WithinBudget(prod[t]))
    /\ [](\A w \in Workers : WithinBudget(cons[w]))
    /\ [][/\ tail' # tail =>
               \E t \in Threads : /\ prod[t].pc = "cas" /\ prod'[t].pc = "idle"
                                    /\ pushed' = Append(pushed, prod[t].task)
          /\ head' # head =>
               \E w \in Workers : /\ cons[w].pc = "cas" /\ cons'[w].pc = "idle"
                                    /\ popped' = Append(popped, cons[w].task)
          /\ \A t \in Threads :
               (prod[t].pc # "idle" /\ prod'[t].pc = "idle" /\ pushed' = pushed)
                   => tail' = tail
          /\ \A w \in Workers :
               (cons[w].pc # "idle" /\ cons'[w].pc = "idle" /\ popped' = popped)
                   => head' = head]_vars

\* A try_push and a try_pop have both used up their budget on failed
\* compare-exchanges and are about to return false.
C37_Witness ==
    \E t \in Threads, w \in Workers :
        /\ prod[t].pc = "load_tail"
        /\ prod[t].retries = prod[t].max_retries
        /\ cons[w].pc = "load_head"
        /\ cons[w].retries = cons[w].max_retries
        /\ cons[w].retries > 0

\* C38: a call changes nothing but its own key. A finished insert,
\* insert_or_assign or erase on a key leaves every other key, those of the
\* same bucket chain included, present or absent as it was and with the
\* value it had; a finished find leaves the whole table as it was.
C38_OnlyOwnKeyChanges ==
    [][hist' # hist =>
          LET call == hist'[Len(hist')] IN
          /\ \A k \in StoreKeys \ {call.key} :
                MapOf(table')[k] = MapOf(table)[k]
          /\ call.op = "find" => table' = table]_vars

\* An erase removed a key whose bucket chain holds another key as well,
\* and that key is still there.
C38_Witness ==
    /\ hist # <<>>
    /\ hist[Len(hist)].op = "erase"
    /\ hist[Len(hist)].ret
    /\ \E k \in StoreKeys \ {hist[Len(hist)].key} :
          /\ BucketIndex(k) = BucketIndex(hist[Len(hist)].key)
          /\ MapOf(table)[k] # 0

\* The frame has gone through the failure path of a round in this step.
FailedRound(frame, after) == after.retries = frame.retries + 1

\* The pause count after a failed round: doubled, or kept at the cap, and
\* never zero.
BackoffGrows(frame, after) ==
    /\ after.backoff >= 1
    /\ after.backoff >= frame.backoff
    /\ after.backoff # frame.backoff => after.backoff = 2 * frame.backoff

\* C39: over the failed rounds of one call the number of pause hints
\* doubles (1, 2, 4, ...) up to a cap, stays at the cap, and never falls
\* back to zero.
C39_BackoffGrowsToCap ==
    [][/\ \A t \in Threads :
            FailedRound(prod[t], prod'[t]) => BackoffGrows(prod[t], prod'[t])
       /\ \A w \in Workers :
            FailedRound(cons[w], cons'[w]) => BackoffGrows(cons[w], cons'[w])]_vars

====
